---- MODULE Spec2Model ----
(***************************************************************************)
(* Model of the RockPaperScissors rules engine (src/src/lib.rs): the Game  *)
(* struct, Game::new, Game::force_win and Game::make_move, on the test     *)
(* configuration of the board (3 x 3, one row per side).                   *)
(*                                                                         *)
(* The modules move_conditions, win_conditions, unit and field are         *)
(* declared in lib.rs (lines 25-28) but their files are not part of the    *)
(* sources; what make_move needs of them (Move, Direction, Move::apply,    *)
(* OnlyForwardMove, EliminateCondition, GeneralUnit) is modelled from the  *)
(* specification of the engine.                                            *)
(***************************************************************************)
EXTENDS Integers, Sequences, FiniteSets, TLC

\* Board geometry, #[cfg(test)] values (lib.rs lines 6, 9, 12).
WIDTH == 3
HEIGHT == 3
ROWS == 1

\* Bounds of the model: accepted moves stop once turns reaches the cap.
\* MaxTurns caps games under OnlyForwardMove, MaxTurnsFree games under the
\* permissive move condition (whose state space grows much faster).
MaxTurns == 7
MaxTurnsFree == 3

\* usize arithmetic is modular; the model keeps the wrap-around of a
\* subtraction below zero.  Any modulus larger than the grid gives the same
\* comparisons against WIDTH and HEIGHT.
UsizeModulus == 65536

RED == "Red"
BLUE == "Blue"
Player == {RED, BLUE}

ROCK == "Rock"
PAPER == "Paper"
SCISSORS == "Scissors"
RPS == {ROCK, PAPER, SCISSORS}

WIN == "Win"
LOSE == "Lose"
DRAW == "Draw"
Outcome == {WIN, LOSE, DRAW}

\* Option<T>: None is the empty sequence, Some(x) the one-element sequence.
None == << >>
Some(x) == << x >>
IsSome(o) == Len(o) = 1
Unwrap(o) == o[1]

MoveError == {"GameAlreadyFinished", "DeclinedByMoveCondition",
              "PositionOutOfBounds", "WrongOwner", "NoUnitInPosition",
              "SameOwner", "UnexpextedError"}

\* Result<Option<Outcome>, MoveError>
Ok(o) == [tag |-> "Ok", outcome |-> o, err |-> "-"]
Err(e) == [tag |-> "Err", outcome |-> None, err |-> e]
\* the value recorded for calls that return nothing (new, force_win)
Unit0 == [tag |-> "Unit", outcome |-> None, err |-> "-"]

\* move_conditions::Direction and move_conditions::Move
Direction == {"Forward", "Backward", "Left", "Right"}
Move_new(x, y, d) == [from |-> <<x, y>>, direction |-> d]

\* unit::GeneralUnit::new: a unit starts hidden
GeneralUnit_new(rps, owner) == [owner |-> owner, kind |-> rps, visible |-> FALSE]

\* a plausible slip: the turn is not passed
next_Same(p) == p

\* Player::next
next(p) == IF p = RED THEN BLUE ELSE RED

\* Player::unit
unit(p, rps) == GeneralUnit_new(rps, p)

\* a plausible slip: two of the pairs are listed in the wrong arm
attack_ArmsMixed(self, opponent) ==
    IF <<self, opponent>> \in {<<PAPER, ROCK>>, <<ROCK, SCISSORS>>, <<PAPER, SCISSORS>>}
    THEN WIN
    ELSE IF <<self, opponent>> \in {<<ROCK, PAPER>>, <<SCISSORS, ROCK>>, <<SCISSORS, PAPER>>}
         THEN LOSE
         ELSE DRAW

\* RPS::attack
attack(self, opponent) ==
    IF <<self, opponent>> \in {<<PAPER, ROCK>>, <<ROCK, SCISSORS>>, <<SCISSORS, PAPER>>}
    THEN WIN
    ELSE IF <<self, opponent>> \in {<<ROCK, PAPER>>, <<SCISSORS, ROCK>>, <<PAPER, SCISSORS>>}
         THEN LOSE
         ELSE DRAW

\* unit::GeneralUnit::attack: Option<Outcome>, always classified
\* a plausible slip: the combat of two units of one kind is left unclassified
unit_attack_NoDraw(u, defender) ==
    IF u.kind = defender.kind THEN None ELSE Some(attack(u.kind, defender.kind))

unit_attack(u, defender) == Some(attack(u.kind, defender.kind))

\* usize subtraction and addition by one, wrapping
WrappingDec(a) == (a + UsizeModulus - 1) % UsizeModulus
WrappingInc(a) == (a + 1) % UsizeModulus

\* move_conditions::Move::apply: the destination, oriented for the owner
\* (Red advances toward increasing rows, Blue toward decreasing rows).
apply(movement, owner) ==
    LET x == movement.from[1]
        y == movement.from[2]
        d == movement.direction
        fwd == (owner = RED)
    IN  CASE d = "Forward"  -> <<x, IF fwd THEN WrappingInc(y) ELSE WrappingDec(y)>>
          [] d = "Backward" -> <<x, IF fwd THEN WrappingDec(y) ELSE WrappingInc(y)>>
          [] d = "Right"    -> <<IF fwd THEN WrappingInc(x) ELSE WrappingDec(x), y>>
          [] d = "Left"     -> <<IF fwd THEN WrappingDec(x) ELSE WrappingInc(x), y>>

\* The move conditions a game can be built with: the forward-only policy and
\* a policy that approves every descriptor.
MoveConditions == {"OnlyForwardMove", "AnyMove"}

\* a plausible slip: the forward-only rule also lets a unit step back
is_valid_ForwardOrBackward(move_condition, movement) ==
    IF move_condition = "OnlyForwardMove"
    THEN movement.direction \in {"Forward", "Backward"}
    ELSE TRUE

\* MoveCondition::is_valid: a predicate over the descriptor only
is_valid(move_condition, movement) ==
    IF move_condition = "OnlyForwardMove"
    THEN movement.direction = "Forward"
    ELSE TRUE

Cols == 0 .. (WIDTH - 1)
RowIdx == 0 .. (HEIGHT - 1)

\* number of units of a player on a field
Units(f, p) == {c \in Cols \X RowIdx :
                  /\ IsSome(f[c[2]][c[1]])
                  /\ Unwrap(f[c[2]][c[1]]).owner = p}

\* win_conditions::EliminateCondition::winner: a player without units loses
winner_of(win_condition, f) ==
    IF Units(f, BLUE) = {} THEN Some(RED)
    ELSE IF Units(f, RED) = {} THEN Some(BLUE)
    ELSE None

VARIABLES turns, current_turn, winner, field, rules, call, result

vars == <<turns, current_turn, winner, field, rules, call, result>>

\* the Game value held in the variables
Self == [turns |-> turns, current_turn |-> current_turn, winner |-> winner,
         field |-> field, rules |-> rules]

\* The call recorded with each step: the operation, the player it names (the
\* argument of force_win, the player to move for make_move) and, when the
\* call is a make_move that was accepted, its movement.
Call(op, player, accepted) == [op |-> op, player |-> player, accepted |-> accepted]

\* Rules::new
Rules_new(move_condition, win_condition) ==
    [move_condition |-> move_condition, win_condition |-> win_condition]

\* a plausible slip: the turn counter starts at 0
new_TurnsFromZero(r, red, blue) ==
    LET rows == [y \in RowIdx |->
                   [x \in Cols |->
                      IF y >= HEIGHT - ROWS THEN Some(unit(BLUE, blue[HEIGHT - y]))
                      ELSE IF y < ROWS THEN Some(unit(RED, red[y + 1]))
                      ELSE None]]
    IN  [turns |-> 0, current_turn |-> RED, winner |-> None,
         field |-> rows, rules |-> r]

\* a plausible slip: a unit is drawn for every cell instead of every row; the
\* draws of a row's cells are taken to cycle through the kinds
new_UnitPerCell(r, red, blue) ==
    LET Cycle(k, x) == IF x % 3 = 0 THEN k
                       ELSE IF x % 3 = 1
                            THEN (IF k = ROCK THEN PAPER
                                  ELSE IF k = PAPER THEN SCISSORS ELSE ROCK)
                            ELSE (IF k = ROCK THEN SCISSORS
                                  ELSE IF k = PAPER THEN ROCK ELSE PAPER)
        rows == [y \in RowIdx |->
                   [x \in Cols |->
                      IF y >= HEIGHT - ROWS
                      THEN Some(unit(BLUE, Cycle(blue[HEIGHT - y], x)))
                      ELSE IF y < ROWS THEN Some(unit(RED, Cycle(red[y + 1], x)))
                      ELSE None]]
    IN  [turns |-> 1, current_turn |-> RED, winner |-> None,
         field |-> rows, rules |-> r]

\* Game::new.  red[i] and blue[i] are the kinds RPS::random returns for the
\* i-th iteration of the seeding loop; the one unit drawn is copied across
\* the whole row.
new(r, red, blue) ==
    LET RedRow(y) == \E i \in 0 .. (ROWS - 1) : y = i
        BlueRow(y) == \E i \in 0 .. (ROWS - 1) : y = HEIGHT - i - 1
        \* later iterations of the loop overwrite earlier ones, and within an
        \* iteration the Blue row is written after the Red row
        Last(y) == CHOOSE i \in 0 .. (ROWS - 1) :
                      /\ y = i \/ y = HEIGHT - i - 1
                      /\ \A j \in 0 .. (ROWS - 1) :
                            (y = j \/ y = HEIGHT - j - 1) => j <= i
        rows == [y \in RowIdx |->
                   [x \in Cols |->
                      IF ~(RedRow(y) \/ BlueRow(y)) THEN None
                      ELSE IF y = HEIGHT - Last(y) - 1
                           THEN Some(unit(BLUE, blue[Last(y) + 1]))
                           ELSE Some(unit(RED, red[Last(y) + 1]))]]
    IN  [turns |-> 1, current_turn |-> RED, winner |-> None,
         field |-> rows, rules |-> r]

\* a plausible slip: the override is not guarded by the winner already set
force_win_Always(self, player) == [self EXCEPT !.winner = Some(player)]

\* a plausible slip: the override names the player to move, not its argument
force_win_CurrentPlayer(self, player) ==
    IF ~IsSome(self.winner) THEN [self EXCEPT !.winner = Some(self.current_turn)] ELSE self

\* Game::force_win
force_win(self, player) ==
    IF ~IsSome(self.winner) THEN [self EXCEPT !.winner = Some(player)] ELSE self

\* what the checks of make_move compute: an error, or "" with the
\* destination and the attack outcome
Reject(e) == [err |-> e, to |-> <<0, 0>>, attack_outcome |-> None]
Accept(to, attack_outcome) == [err |-> "", to |-> to, attack_outcome |-> attack_outcome]

\* a plausible slip: the defender's kind attacks the mover's
CheckDestination_DefenderAttacks(self, movement, u) ==
    LET dist == apply(movement, u.owner)
        to_x == dist[1]
        to_y == dist[2]
    IN  IF to_x >= WIDTH \/ to_y >= HEIGHT THEN Reject("PositionOutOfBounds")
        ELSE IF IsSome(self.field[to_y][to_x])
        THEN LET defender == Unwrap(self.field[to_y][to_x])
             IN  IF defender.owner = self.current_turn THEN Reject("SameOwner")
                 ELSE IF IsSome(unit_attack(defender, u))
                 THEN Accept(dist, unit_attack(defender, u))
                 ELSE Reject("UnexpextedError")
        ELSE Accept(dist, None)

\* a plausible slip: a destination beyond the edge is clamped onto the edge
\* instead of being rejected
CheckDestination_Clamped(self, movement, u) ==
    LET dist == apply(movement, u.owner)
        to_x == IF dist[1] >= WIDTH THEN movement.from[1] ELSE dist[1]
        to_y == IF dist[2] >= HEIGHT THEN movement.from[2] ELSE dist[2]
    IN  IF IsSome(self.field[to_y][to_x])
        THEN LET defender == Unwrap(self.field[to_y][to_x])
             IN  IF defender.owner = self.current_turn THEN Reject("SameOwner")
                 ELSE IF IsSome(unit_attack(u, defender))
                 THEN Accept(<<to_x, to_y>>, unit_attack(u, defender))
                 ELSE Reject("UnexpextedError")
        ELSE Accept(<<to_x, to_y>>, None)

\* a plausible slip: only a decisive combat is accepted, a Draw falls into the
\* error arm
CheckDestination_DrawUnexpected(self, movement, u) ==
    LET dist == apply(movement, u.owner)
        to_x == dist[1]
        to_y == dist[2]
    IN  IF to_x >= WIDTH \/ to_y >= HEIGHT THEN Reject("PositionOutOfBounds")
        ELSE IF IsSome(self.field[to_y][to_x])
        THEN LET defender == Unwrap(self.field[to_y][to_x])
             IN  IF defender.owner = self.current_turn THEN Reject("SameOwner")
                 ELSE IF unit_attack(u, defender) \in {Some(WIN), Some(LOSE)}
                 THEN Accept(dist, unit_attack(u, defender))
                 ELSE Reject("UnexpextedError")
        ELSE Accept(dist, None)

\* Game::make_move, lines 92-108: the destination of the unit u found at the
\* origin, its bounds, and the defender there
CheckDestination(self, movement, u) ==
    LET dist == apply(movement, u.owner)
        to_x == dist[1]
        to_y == dist[2]
    IN  IF to_x >= WIDTH \/ to_y >= HEIGHT THEN Reject("PositionOutOfBounds")
        ELSE IF IsSome(self.field[to_y][to_x])
        THEN LET defender == Unwrap(self.field[to_y][to_x])
             IN  IF defender.owner = self.current_turn THEN Reject("SameOwner")
                 ELSE IF IsSome(unit_attack(u, defender))
                 THEN Accept(dist, unit_attack(u, defender))
                 ELSE Reject("UnexpextedError")
        ELSE Accept(dist, None)

\* a plausible slip: the origin's bounds are checked before the move condition
CheckOrigin_BoundsFirst(self, movement) ==
    LET from_x == movement.from[1]
        from_y == movement.from[2]
    IN  IF from_x >= WIDTH \/ from_y >= HEIGHT THEN Reject("PositionOutOfBounds")
        ELSE IF ~is_valid(self.rules.move_condition, movement)
        THEN Reject("DeclinedByMoveCondition")
        ELSE IF IsSome(self.field[from_y][from_x])
        THEN LET u == Unwrap(self.field[from_y][from_x])
             IN  IF u.owner # self.current_turn THEN Reject("WrongOwner")
                 ELSE CheckDestination(self, movement, u)
        ELSE Reject("NoUnitInPosition")

\* Game::make_move, lines 79-114: the move condition, the origin's bounds,
\* the unit at the origin and its owner, then the destination
CheckOrigin(self, movement) ==
    LET from_x == movement.from[1]
        from_y == movement.from[2]
    IN  IF ~is_valid(self.rules.move_condition, movement)
        THEN Reject("DeclinedByMoveCondition")
        ELSE IF from_x >= WIDTH \/ from_y >= HEIGHT THEN Reject("PositionOutOfBounds")
        ELSE IF IsSome(self.field[from_y][from_x])
        THEN LET u == Unwrap(self.field[from_y][from_x])
             IN  IF u.owner # self.current_turn THEN Reject("WrongOwner")
                 ELSE CheckDestination(self, movement, u)
        ELSE Reject("NoUnitInPosition")

\* a plausible slip: the check of a finished game is missing
Validate_NoFinishedCheck(self, movement) == CheckOrigin(self, movement)

\* Game::make_move, lines 77-114: all the checks, the finished game first
Validate(self, movement) ==
    IF IsSome(self.winner) THEN Reject("GameAlreadyFinished")
    ELSE CheckOrigin(self, movement)

\* writes to one cell of the rows
SetCell(f, x, y, v) == [f EXCEPT ![y][x] = v]
SetVisible(f, x, y) == [f EXCEPT ![y][x] = Some([Unwrap(@) EXCEPT !.visible = TRUE])]

\* a plausible slip: on Lose the defender is not revealed
Mutate_LoseKeepsHidden(f, from, to, attack_outcome) ==
    LET moved == SetCell(SetCell(f, to[1], to[2], f[from[2]][from[1]]), from[1], from[2], None)
    IN  IF IsSome(attack_outcome)
        THEN CASE Unwrap(attack_outcome) = WIN -> SetVisible(moved, to[1], to[2])
               [] Unwrap(attack_outcome) = LOSE -> SetCell(f, from[1], from[2], None)
               [] Unwrap(attack_outcome) = DRAW ->
                    SetVisible(SetVisible(f, from[1], from[2]), to[1], to[2])
        ELSE moved

\* a plausible slip: a relocated unit is rebuilt from its kind and owner, and
\* so is hidden again
Mutate_RelocationHides(f, from, to, attack_outcome) ==
    LET u == Unwrap(f[from[2]][from[1]])
        moved == SetCell(SetCell(f, to[1], to[2], f[from[2]][from[1]]), from[1], from[2], None)
        rebuilt == SetCell(SetCell(f, to[1], to[2], Some(GeneralUnit_new(u.kind, u.owner))),
                           from[1], from[2], None)
    IN  IF IsSome(attack_outcome)
        THEN CASE Unwrap(attack_outcome) = WIN -> SetVisible(moved, to[1], to[2])
               [] Unwrap(attack_outcome) = LOSE ->
                    SetVisible(SetCell(f, from[1], from[2], None), to[1], to[2])
               [] Unwrap(attack_outcome) = DRAW ->
                    SetVisible(SetVisible(f, from[1], from[2]), to[1], to[2])
        ELSE rebuilt

\* a plausible slip: a relocation writes the destination and forgets to clear
\* the origin
Mutate_RelocationKeepsOrigin(f, from, to, attack_outcome) ==
    LET moved == SetCell(SetCell(f, to[1], to[2], f[from[2]][from[1]]), from[1], from[2], None)
    IN  IF IsSome(attack_outcome)
        THEN CASE Unwrap(attack_outcome) = WIN -> SetVisible(moved, to[1], to[2])
               [] Unwrap(attack_outcome) = LOSE ->
                    SetVisible(SetCell(f, from[1], from[2], None), to[1], to[2])
               [] Unwrap(attack_outcome) = DRAW ->
                    SetVisible(SetVisible(f, from[1], from[2]), to[1], to[2])
        ELSE SetCell(f, to[1], to[2], f[from[2]][from[1]])

\* a plausible slip: a lost attack takes the defender off the board with the
\* attacker
Mutate_LoseRemovesBoth(f, from, to, attack_outcome) ==
    LET moved == SetCell(SetCell(f, to[1], to[2], f[from[2]][from[1]]), from[1], from[2], None)
    IN  IF IsSome(attack_outcome)
        THEN CASE Unwrap(attack_outcome) = WIN -> SetVisible(moved, to[1], to[2])
               [] Unwrap(attack_outcome) = LOSE ->
                    SetCell(SetCell(f, from[1], from[2], None), to[1], to[2], None)
               [] Unwrap(attack_outcome) = DRAW ->
                    SetVisible(SetVisible(f, from[1], from[2]), to[1], to[2])
        ELSE moved

\* Game::make_move, lines 116-135: the mutation of the field
Mutate(f, from, to, attack_outcome) ==
    LET from_x == from[1]
        from_y == from[2]
        to_x == to[1]
        to_y == to[2]
        moved == SetCell(SetCell(f, to_x, to_y, f[from_y][from_x]), from_x, from_y, None)
    IN  IF IsSome(attack_outcome)
        THEN CASE Unwrap(attack_outcome) = WIN ->
                    SetVisible(moved, to_x, to_y)
               [] Unwrap(attack_outcome) = LOSE ->
                    SetVisible(SetCell(f, from_x, from_y, None), to_x, to_y)
               [] Unwrap(attack_outcome) = DRAW ->
                    SetVisible(SetVisible(f, from_x, from_y), to_x, to_y)
        ELSE moved

\* a plausible slip: the turn is passed before the checks, and so also when
\* the move is then rejected
make_move_RejectPassesTurn(self, movement) ==
    LET v == Validate(self, movement)
    IN  IF v.err # ""
        THEN [game |-> [self EXCEPT !.current_turn = next(self.current_turn)],
              result |-> Err(v.err)]
        ELSE LET f == Mutate(self.field, movement.from, v.to, v.attack_outcome)
             IN  [game |-> [self EXCEPT !.field = f,
                                        !.winner = winner_of(self.rules.win_condition, f),
                                        !.turns = self.turns + 1,
                                        !.current_turn = next(self.current_turn)],
                  result |-> Ok(v.attack_outcome)]

\* a plausible slip: the win condition is asked before the field is mutated
make_move_StaleWinner(self, movement) ==
    LET v == Validate(self, movement)
    IN  IF v.err # ""
        THEN [game |-> self, result |-> Err(v.err)]
        ELSE LET f == Mutate(self.field, movement.from, v.to, v.attack_outcome)
             IN  [game |-> [self EXCEPT !.field = f,
                                        !.winner = winner_of(self.rules.win_condition,
                                                             self.field),
                                        !.turns = self.turns + 1,
                                        !.current_turn = next(self.current_turn)],
                  result |-> Ok(v.attack_outcome)]

\* a plausible slip: the winner is not recomputed after the move
make_move_NoRecompute(self, movement) ==
    LET v == Validate(self, movement)
    IN  IF v.err # ""
        THEN [game |-> self, result |-> Err(v.err)]
        ELSE LET f == Mutate(self.field, movement.from, v.to, v.attack_outcome)
             IN  [game |-> [self EXCEPT !.field = f,
                                        !.turns = self.turns + 1,
                                        !.current_turn = next(self.current_turn)],
                  result |-> Ok(v.attack_outcome)]

\* Game::make_move: the game after the call and the value returned
make_move(self, movement) ==
    LET v == Validate(self, movement)
    IN  IF v.err # ""
        THEN [game |-> self, result |-> Err(v.err)]
        ELSE LET f == Mutate(self.field, movement.from, v.to, v.attack_outcome)
             IN  [game |-> [self EXCEPT !.field = f,
                                        !.winner = winner_of(self.rules.win_condition, f),
                                        !.turns = self.turns + 1,
                                        !.current_turn = next(self.current_turn)],
                  result |-> Ok(v.attack_outcome)]

\* The kinds RPS::random can return for the rows of one side
Seeds == [1 .. ROWS -> RPS]

\* The moves a caller can pass: origins on the grid and one step outside it
Moves == {Move_new(x, y, d) : x \in 0 .. WIDTH, y \in 0 .. HEIGHT, d \in Direction}

\* the cap on accepted moves for the game's move condition
TurnCap == IF rules.move_condition = "OnlyForwardMove" THEN MaxTurns ELSE MaxTurnsFree

Install(g) ==
    /\ turns' = g.turns
    /\ current_turn' = g.current_turn
    /\ winner' = g.winner
    /\ field' = g.field
    /\ rules' = g.rules

Init ==
    \E mc \in MoveConditions, red \in Seeds, blue \in Seeds :
        LET g == new(Rules_new(mc, "EliminateCondition"), red, blue)
        IN  /\ turns = g.turns
            /\ current_turn = g.current_turn
            /\ winner = g.winner
            /\ field = g.field
            /\ rules = g.rules
            /\ call = Call("new", RED, None)
            /\ result = Unit0

MakeMove(movement) ==
    LET r == make_move(Self, movement)
    IN  /\ r.result.tag = "Ok" => turns < TurnCap
        /\ Install(r.game)
        /\ call' = Call("make_move", current_turn,
                        IF r.result.tag = "Ok" THEN Some(movement) ELSE None)
        /\ result' = r.result

ForceWin(player) ==
    /\ Install(force_win(Self, player))
    /\ call' = Call("force_win", player, None)
    /\ result' = Unit0

Next ==
    \/ \E movement \in Moves : MakeMove(movement)
    \/ \E player \in Player : ForceWin(player)

Spec == Init /\ [][Next]_vars

(***************************************************************************)
(* The claims checked of the model.                                        *)
(***************************************************************************)

Cells == Cols \X RowIdx
Cell(f, c) == f[c[2]][c[1]]
InGrid(c) == c[1] \in Cols /\ c[2] \in RowIdx
Revealed(u) == [u EXCEPT !.visible = TRUE]
\* the unit at the origin of a movement, and where the movement carries it
Mover(m) == Unwrap(Cell(field, m.from))
Dest(m) == apply(m, Mover(m).owner)
\* the fields of the game other than the rules are left as they are
GameUnchanged ==
    /\ field' = field
    /\ turns' = turns
    /\ current_turn' = current_turn
    /\ winner' = winner

\* C1 (atomic rejection): whenever a make_move call returns Err, of any
\* kind, the board (every cell with its visible flag), turns, current_turn
\* and winner are the same after the call as before it.
C1_AtomicRejection ==
    [][(call'.op = "make_move" /\ result'.tag = "Err")
          => (result'.err \in MoveError /\ GameUnchanged)]_vars

\* a move onto a friendly unit was rejected on a board that combat has
\* already changed (a unit is revealed)
C1_Witness ==
    /\ call.op = "make_move"
    /\ result = Err("SameOwner")
    /\ \E c \in Cells : IsSome(Cell(field, c)) /\ Unwrap(Cell(field, c)).visible

\* C2 (turn alternation): a make_move call that returns Ok hands the turn to
\* the other player and adds exactly one to turns; a call that returns Err
\* leaves both as they were.
C2_TurnAlternation ==
    [][call'.op = "make_move" =>
          IF result'.tag = "Ok"
          THEN /\ current_turn' \in Player \ {current_turn}
               /\ turns' = turns + 1
          ELSE /\ result'.tag = "Err"
               /\ current_turn' = current_turn
               /\ turns' = turns]_vars

\* a combat was just accepted as the second move of the game
C2_Witness ==
    /\ call.op = "make_move"
    /\ result.tag = "Ok"
    /\ IsSome(result.outcome)
    /\ turns = 3
    /\ current_turn = RED

\* C3 (terminal finality): in every state whose winner is set, make_move
\* returns Err(GameAlreadyFinished) for every movement and leaves the board
\* as it is.
C3_TerminalFinality ==
    IsSome(winner) =>
       \A m \in Moves :
          /\ make_move(Self, m).result = Err("GameAlreadyFinished")
          /\ make_move(Self, m).game.field = field

\* a move was refused in a game the elimination rule has finished
C3_Witness ==
    /\ call.op = "make_move"
    /\ result = Err("GameAlreadyFinished")
    /\ IsSome(winner)
    /\ winner = winner_of(rules.win_condition, field)

\* C4 (winner stability): once winner is Some(p), no step changes it.
C4_WinnerStability == [][IsSome(winner) => winner' = winner]_vars

\* force_win was called for the player who is not the winner
C4_Witness ==
    /\ call.op = "force_win"
    /\ IsSome(winner)
    /\ winner # Some(call.player)

\* C5 (force_win): force_win(player) sets winner to Some(player) when there
\* is no winner and changes nothing when there is one; the board, turns and
\* current_turn are left as they were in both cases.
C5_ForceWin ==
    [][call'.op = "force_win" =>
          /\ winner' = IF winner = None THEN Some(call'.player) ELSE winner
          /\ field' = field
          /\ turns' = turns
          /\ current_turn' = current_turn]_vars

\* force_win made its player the winner on a board on which the win
\* condition finds no winner, with that player not the one to move
C5_Witness ==
    /\ call.op = "force_win"
    /\ winner = Some(call.player)
    /\ winner_of(rules.win_condition, field) = None
    /\ call.player # current_turn
    /\ turns > 1

\* C6 (combat resolution): when an accepted move carries the current
\* player's unit onto an opposing unit, on Win the destination holds the
\* mover, revealed, and the origin is empty; on Lose the origin is empty and
\* the destination holds the defender, revealed; on Draw both stay where
\* they are and both are revealed.
C6_CombatResolution ==
    [][(call'.op = "make_move" /\ result'.tag = "Ok" /\ IsSome(result'.outcome)) =>
          LET m == Unwrap(call'.accepted)
              from == m.from
              to == Dest(m)
              mover == Mover(m)
              defender == Unwrap(Cell(field, to))
              o == Unwrap(result'.outcome)
          IN  /\ InGrid(from) /\ IsSome(Cell(field, from))
              /\ InGrid(to) /\ IsSome(Cell(field, to))
              /\ mover.owner = current_turn
              /\ defender.owner # current_turn
              /\ o \in Outcome
              /\ o = WIN => /\ Cell(field', to) = Some(Revealed(mover))
                            /\ Cell(field', from) = None
              /\ o = LOSE => /\ Cell(field', from) = None
                             /\ Cell(field', to) = Some(Revealed(defender))
              /\ o = DRAW => /\ Cell(field', from) = Some(Revealed(mover))
                             /\ Cell(field', to) = Some(Revealed(defender))]_vars

\* an attack was just lost: the origin is empty and the defender, of the
\* other player, stands revealed at the destination
C6_Witness ==
    /\ call.op = "make_move"
    /\ result = Ok(Some(LOSE))
    /\ LET m == Unwrap(call.accepted)
           to == apply(m, call.player)
       IN  /\ Cell(field, m.from) = None
           /\ IsSome(Cell(field, to))
           /\ Unwrap(Cell(field, to)).owner # call.player
           /\ Unwrap(Cell(field, to)).visible

\* C7 (result of an accepted move): an accepted move returns Ok(None)
\* exactly when its destination was empty, and then the unit stands at the
\* destination and the origin is empty; it returns Ok(Some(o)) exactly when
\* the destination held an opposing unit, with o the attack outcome of the
\* mover's kind against the occupant's kind.
C7_MoveResult ==
    [][(call'.op = "make_move" /\ result'.tag = "Ok") =>
          LET m == Unwrap(call'.accepted)
              from == m.from
              to == Dest(m)
              mover == Mover(m)
              dest == Cell(field, to)
          IN  /\ InGrid(from) /\ IsSome(Cell(field, from)) /\ InGrid(to)
              /\ (result'.outcome = None) <=> (dest = None)
              /\ dest = None => /\ Cell(field', to) = Some(mover)
                                /\ Cell(field', from) = None
              /\ dest # None => /\ Unwrap(dest).owner # mover.owner
                                /\ result'.outcome
                                      = Some(attack(mover.kind, Unwrap(dest).kind))
                                /\ Unwrap(result'.outcome) \in Outcome]_vars

\* an attack was just won: the mover stands at the destination
C7_Witness ==
    /\ call.op = "make_move"
    /\ result = Ok(Some(WIN))
    /\ LET m == Unwrap(call.accepted)
           to == apply(m, call.player)
       IN  /\ IsSome(Cell(field, to))
           /\ Unwrap(Cell(field, to)).owner = call.player

\* the conditions make_move rejects a movement for
Finished == IsSome(winner)
ShapeRejected(m) == ~is_valid(rules.move_condition, m)
OriginOutside(m) == ~InGrid(m.from)
OriginEmpty(m) == InGrid(m.from) /\ Cell(field, m.from) = None
HasMover(m) == InGrid(m.from) /\ IsSome(Cell(field, m.from))
NotOwned(m) == HasMover(m) /\ Mover(m).owner # current_turn
DestOutside(m) == HasMover(m) /\ ~InGrid(Dest(m))
DestFriendly(m) ==
    /\ HasMover(m)
    /\ InGrid(Dest(m))
    /\ IsSome(Cell(field, Dest(m)))
    /\ Unwrap(Cell(field, Dest(m))).owner = current_turn

\* the error of the first condition that holds, in the order claimed, or ""
\* when none holds
FirstFailing(m) ==
    IF Finished THEN "GameAlreadyFinished"
    ELSE IF ShapeRejected(m) THEN "DeclinedByMoveCondition"
    ELSE IF OriginOutside(m) THEN "PositionOutOfBounds"
    ELSE IF OriginEmpty(m) THEN "NoUnitInPosition"
    ELSE IF NotOwned(m) THEN "WrongOwner"
    ELSE IF DestOutside(m) THEN "PositionOutOfBounds"
    ELSE IF DestFriendly(m) THEN "SameOwner"
    ELSE ""

\* C8 (error precedence): whenever one or more of the rejection conditions
\* hold of a movement, make_move returns the error of the first of them in
\* the order finished game, shape, origin bounds, empty origin, owner,
\* destination bounds, friendly destination.
C8_ErrorPrecedence ==
    \A m \in Moves :
       LET e == FirstFailing(m)
       IN  e # "" => make_move(Self, m).result = Err(e)

\* WrongOwner was returned in a state where an approved movement both starts
\* at the other player's unit and leaves the grid
C8_Witness ==
    /\ call.op = "make_move"
    /\ result = Err("WrongOwner")
    /\ \E m \in Moves :
          ~Finished /\ ~ShapeRejected(m) /\ NotOwned(m) /\ DestOutside(m)

\* C9 as stated (bounds scenario): in a game without winner, a movement of
\* the current player's unit that leaves the grid is rejected with
\* PositionOutOfBounds whether or not the move condition approves it.
C9_Original ==
    \A m \in Moves :
       (~Finished /\ HasMover(m) /\ ~NotOwned(m) /\ DestOutside(m))
          => make_move(Self, m).result = Err("PositionOutOfBounds")

\* C9, amended: such a movement is rejected with PositionOutOfBounds when
\* the move condition approves it (so a Red unit on the last row, or a Blue
\* unit on row 0, moving Forward), and with DeclinedByMoveCondition when
\* the move condition does not.
C9_BoundsScenario ==
    /\ \A m \in Moves :
          (~Finished /\ HasMover(m) /\ ~NotOwned(m) /\ DestOutside(m))
             => make_move(Self, m).result =
                   IF ShapeRejected(m) THEN Err("DeclinedByMoveCondition")
                   ELSE Err("PositionOutOfBounds")
    /\ \A x \in Cols :
          LET last == Move_new(x, HEIGHT - 1, "Forward")
              first == Move_new(x, 0, "Forward")
          IN  /\ (~Finished /\ current_turn = RED /\ HasMover(last)
                    /\ Mover(last).owner = RED)
                 => make_move(Self, last).result = Err("PositionOutOfBounds")
              /\ (~Finished /\ current_turn = BLUE /\ HasMover(first)
                    /\ Mover(first).owner = BLUE)
                 => make_move(Self, first).result = Err("PositionOutOfBounds")

\* PositionOutOfBounds was returned to Blue, who has a unit on row 0, under
\* the forward-only rule
C9_Witness ==
    /\ call.op = "make_move"
    /\ result = Err("PositionOutOfBounds")
    /\ rules.move_condition = "OnlyForwardMove"
    /\ current_turn = BLUE
    /\ \E x \in Cols : /\ IsSome(field[0][x])
                       /\ Unwrap(field[0][x]).owner = BLUE

\* C10 (visibility monotonicity): in every step, a revealed unit either
\* stays in its cell as it is, or is the mover of an accepted move and is
\* found, still revealed, at the destination or is removed by a lost attack,
\* or is the defender removed by a won attack.
C10_VisibilityMonotonic ==
    [][\A c \in Cells :
          (IsSome(Cell(field, c)) /\ Unwrap(Cell(field, c)).visible) =>
             \/ Cell(field', c) = Cell(field, c)
             \/ /\ call'.op = "make_move"
                /\ result'.tag = "Ok"
                /\ LET m == Unwrap(call'.accepted)
                       o == result'.outcome
                   IN  \/ /\ c = m.from
                          /\ Cell(field', c) = None
                          /\ \/ Cell(field', Dest(m)) = Cell(field, c)
                             \/ o = Some(LOSE)
                       \/ /\ c = Dest(m)
                          /\ o = Some(WIN)]_vars

\* a revealed unit was just relocated into an empty cell
C10_Witness ==
    /\ call.op = "make_move"
    /\ result = Ok(None)
    /\ LET to == apply(Unwrap(call.accepted), call.player)
       IN  /\ IsSome(Cell(field, to))
           /\ Unwrap(Cell(field, to)).visible

\* C11 (win detection under the elimination rule): after every accepted
\* make_move, winner is Some(p) exactly when the opponent of p has no unit on
\* the board as the move left it; so the move that removes a player's last
\* unit finishes the game in that call, whoever made the move.
C11_WinDetection ==
    [][(call'.op = "make_move" /\ result'.tag = "Ok") =>
          /\ \A p \in Player : (winner' = Some(p)) <=> (Units(field', next(p)) = {})
          /\ (winner' = None) <=> (\A p \in Player : Units(field', p) # {})]_vars

\* the player who just moved lost its last unit in its own attack, and the
\* other player is the winner
C11_Witness ==
    /\ call.op = "make_move"
    /\ result = Ok(Some(LOSE))
    /\ Units(field, call.player) = {}
    /\ winner = Some(next(call.player))

\* C16 (implicit invariant of the elimination rule): in every reachable
\* state without winner both players have a unit on the board; a state in
\* which a player has no unit has its winner set.
C16_NoWinnerBothPresent ==
    /\ winner = None => \A p \in Player : Units(field, p) # {}
    /\ (\E p \in Player : Units(field, p) = {}) => IsSome(winner)

\* Blue has no unit left, Red has all three and is the winner
C16_Witness ==
    /\ Units(field, BLUE) = {}
    /\ Cardinality(Units(field, RED)) = WIDTH * ROWS
    /\ winner = Some(RED)

\* C12 (cyclic dominance): attack is defined on all nine pairs of kinds: Win
\* for (Rock, Scissors), (Scissors, Paper), (Paper, Rock), Draw for equal
\* kinds, Lose for the three converse pairs; so attack(a, b) is Win exactly
\* when attack(b, a) is Lose.  The outcome of every combat played is that of
\* the mover's kind against the defender's.
C12_CyclicDominance ==
    /\ \A a, b \in RPS :
          /\ attack(a, b) \in Outcome
          /\ (attack(a, b) = WIN) <=>
                (<<a, b>> \in {<<ROCK, SCISSORS>>, <<SCISSORS, PAPER>>, <<PAPER, ROCK>>})
          /\ (attack(a, b) = DRAW) <=> (a = b)
          /\ (attack(a, b) = LOSE) <=>
                (<<a, b>> \in {<<SCISSORS, ROCK>>, <<PAPER, SCISSORS>>, <<ROCK, PAPER>>})
          /\ (attack(a, b) = WIN) <=> (attack(b, a) = LOSE)
    /\ result.tag = "Ok" => result.outcome \in {None} \cup {Some(o) : o \in Outcome}

\* Scissors just attacked Paper and won
C12_Witness ==
    /\ call.op = "make_move"
    /\ result = Ok(Some(WIN))
    /\ LET to == apply(Unwrap(call.accepted), call.player)
       IN  /\ IsSome(Cell(field, to))
           /\ Unwrap(Cell(field, to)).kind = SCISSORS
           /\ \E c \in Units(field, next(call.player)) :
                 Unwrap(Cell(field, c)).kind = PAPER

\* C13 (initial state): Game::new yields turns = 1, current_turn = Red, no
\* winner, and a board whose rows 0..ROWS hold a hidden Red unit in every
\* cell, whose last ROWS rows hold a hidden Blue unit in every cell, and
\* whose other cells are empty.
C13_InitialState ==
    call.op = "new" =>
       /\ turns = 1
       /\ current_turn = RED
       /\ winner = None
       /\ \A c \in Cells :
             IF c[2] < ROWS
             THEN /\ IsSome(Cell(field, c))
                  /\ Unwrap(Cell(field, c)).owner = RED
                  /\ Unwrap(Cell(field, c)).kind \in RPS
                  /\ ~Unwrap(Cell(field, c)).visible
             ELSE IF c[2] >= HEIGHT - ROWS
             THEN /\ IsSome(Cell(field, c))
                  /\ Unwrap(Cell(field, c)).owner = BLUE
                  /\ Unwrap(Cell(field, c)).kind \in RPS
                  /\ ~Unwrap(Cell(field, c)).visible
             ELSE Cell(field, c) = None

\* a fresh game whose two sides drew the same kind
C13_Witness ==
    /\ call.op = "new"
    /\ turns = 1
    /\ Unwrap(field[0][0]).kind = PAPER
    /\ Unwrap(field[HEIGHT - 1][WIDTH - 1]).kind = PAPER

\* C20 (seeding): in the board Game::new produces, all the units of one row
\* are the same unit: one kind is drawn per row and copied across it, so
\* kinds differ between rows only.
C20_RowsUniform ==
    call.op = "new" =>
       \A y \in RowIdx : \A x1, x2 \in Cols : field[y][x1] = field[y][x2]

\* a fresh game whose Red row is all Scissors and whose Blue row is all Rock
C20_Witness ==
    /\ call.op = "new"
    /\ \A x \in Cols : /\ Unwrap(field[0][x]).kind = SCISSORS
                       /\ Unwrap(field[HEIGHT - 1][x]).kind = ROCK

\* the scenario of basic_test, played from the game in the variables: the
\* three calls and the games between them
Scenario_move1 == Move_new(0, 0, "Forward")
Scenario_first == make_move(Self, Scenario_move1)
Scenario_second == make_move(Scenario_first.game, Scenario_move1)
\* the third call as the claim has it: the unit now at the forwarded cell
Scenario_thirdByForwarded ==
    make_move(Scenario_second.game, Move_new(0, 1, "Forward"))
\* the third call as basic_test has it: move2 = Move::new(0, 2, Forward)
Scenario_move2 == Move_new(0, HEIGHT - 1, "Forward")
Scenario_third == make_move(Scenario_second.game, Scenario_move2)
Combat == {Ok(Some(o)) : o \in Outcome}

\* C14 as stated (scenario on the 3 x 3 board): from a fresh game the Red
\* unit at (0,0) moves forward, Ok(None); the same move again returns
\* Err(NoUnitInPosition); then a move by the unit now at the forwarded cell
\* (0,1) into the opposing unit returns Ok(Some(outcome)).
C14_Original ==
    call.op = "new" =>
       /\ Scenario_first.result = Ok(None)
       /\ Scenario_second.result = Err("NoUnitInPosition")
       /\ Scenario_thirdByForwarded.result \in Combat

\* C14, amended: the third move is the one of basic_test, by the Blue unit at
\* (0,2) forward into the Red unit now at (0,1), and returns
\* Ok(Some(outcome)); a move by the unit at the forwarded cell is Red's and,
\* the turn being Blue's, returns Err(WrongOwner).
C14_Scenario ==
    call.op = "new" =>
       /\ Scenario_first.result = Ok(None)
       /\ Scenario_second.result = Err("NoUnitInPosition")
       /\ Scenario_second.game = Scenario_first.game
       /\ Scenario_third.result \in Combat
       /\ Scenario_thirdByForwarded.result = Err("WrongOwner")

\* the scenario was played: the second accepted move of the game is Blue's
\* move2 into the Red unit that left (0,0) for (0,1)
C14_Witness ==
    /\ call.op = "make_move"
    /\ call.accepted = Some(Scenario_move2)
    /\ call.player = BLUE
    /\ result \in Combat
    /\ turns = 3
    /\ field[0][0] = None
    /\ \A x \in Cols \ {0} : IsSome(field[0][x]) /\ IsSome(field[HEIGHT - 1][x])


\* C15 (UnexpextedError is unreachable): no call has returned
\* Err(UnexpextedError), and in no reachable state does make_move return it
\* for any movement; the combat of any two units is Some(Win), Some(Lose) or
\* Some(Draw).
C15_UnexpextedErrorUnreachable ==
    /\ result # Err("UnexpextedError")
    /\ \A m \in Moves : make_move(Self, m).result # Err("UnexpextedError")
    /\ \A p \in Player : \A a, b \in RPS :
          unit_attack(unit(p, a), unit(next(p), b)) \in {Some(o) : o \in Outcome}

\* a combat of equal kinds took place and was classified: both units stand,
\* revealed, face to face
C15_Witness ==
    /\ call.op = "make_move"
    /\ result = Ok(Some(DRAW))
    /\ Mover(Unwrap(call.accepted)).visible
    /\ Unwrap(Cell(field, apply(Unwrap(call.accepted), call.player))).visible
    /\ Mover(Unwrap(call.accepted)).kind
         = Unwrap(Cell(field, apply(Unwrap(call.accepted), call.player))).kind

\* the movements make_move accepts in the game of the variables
Acceptable == {m \in Moves : make_move(Self, m).result.tag = "Ok"}

\* C17 (deadlock-freedom): under the forward-only move rule and the
\* elimination win rule, in every reachable state without winner there is a
\* movement that make_move accepts for the current player.
C17_DeadlockFree ==
    (winner = None /\ rules.move_condition = "OnlyForwardMove") => Acceptable # {}

\* a player with a unit that can no longer move (it stands on the far row)
\* is to move, the game is open, and another unit of theirs still can
C17_Witness ==
    /\ rules.move_condition = "OnlyForwardMove"
    /\ winner = None
    /\ \E c \in Units(field, current_turn) :
          ~InGrid(apply(Move_new(c[1], c[2], "Forward"), current_turn))
    /\ Acceptable # {}


\* what one unit can still contribute to a run: the forward steps left to a
\* unit of owner p on row y before the far edge, and its removal
Remaining(p, y) == IF p = RED THEN HEIGHT - y ELSE y + 1

\* the ranking function of the termination argument: the sum of Remaining
\* over the units of the board, counted as the pairs of a unit and one of
\* its remaining contributions
Rank(f) ==
    Cardinality({ck \in Cells \X (1 .. HEIGHT) :
                   /\ IsSome(Cell(f, ck[1]))
                   /\ ck[2] <= Remaining(Unwrap(Cell(f, ck[1])).owner, ck[1][2])})

\* C18 (termination bound): under the forward-only move rule every accepted
\* move whose result is Ok(None), Ok(Some(Win)) or Ok(Some(Lose)) strictly
\* decreases a natural-number rank of the board (it advances a unit one row
\* toward the far edge or removes a unit), and no step increases the rank,
\* a Draw leaving it unchanged; so such moves occur only finitely often, and
\* an infinite run of accepted moves ends in Draw combats only.
C18_TerminationBound ==
    [][rules.move_condition = "OnlyForwardMove" =>
         LET accepted == call'.op = "make_move" /\ result'.tag = "Ok"
             from == Unwrap(call'.accepted).from
             to == apply(Unwrap(call'.accepted), current_turn)
             count(f) == Cardinality(Units(f, RED) \cup Units(f, BLUE))
         IN  IF field' = field
             THEN accepted => result' = Ok(Some(DRAW))
             ELSE /\ Rank(field') \in 0 .. Rank(field)
                  /\ accepted
                  /\ IF result' = Ok(Some(DRAW))
                     THEN /\ Rank(field') = Rank(field)
                          /\ \A p \in Player : Units(field', p) = Units(field, p)
                     ELSE /\ Rank(field') < Rank(field)
                          /\ \/ count(field') < count(field)
                             \/ /\ Cell(field', to) = Cell(field, from)
                                /\ Remaining(current_turn, to[2])
                                     < Remaining(current_turn, from[2])
       ]_vars

\* under the forward-only rule a Red unit has stepped into the empty far row:
\* it has no forward step left
C18_Witness ==
    /\ rules.move_condition = "OnlyForwardMove"
    /\ call.op = "make_move"
    /\ call.player = RED
    /\ result = Ok(None)
    /\ Remaining(RED, apply(Unwrap(call.accepted), RED)[2]) = Remaining(RED, HEIGHT - 1)
    /\ Cardinality(Units(field, BLUE)) < WIDTH * ROWS


\* C19 (frame property): an accepted make_move changes at most the origin and
\* the destination cell; every other cell is unchanged; no unit is created
\* (what stands on the two cells afterwards is the mover or the defender,
\* possibly revealed); and at most one unit is removed: the defender's side
\* loses one on Win, the mover's side one on Lose, no side any on Draw or on
\* a relocation.
C19_Frame ==
    [][(call'.op = "make_move" /\ result'.tag = "Ok") =>
         LET from == Unwrap(call'.accepted).from
             to == apply(Unwrap(call'.accepted), current_turn)
             mover == Unwrap(Cell(field, from))
             lost(p) == Cardinality(Units(field, p)) - Cardinality(Units(field', p))
             o == result'.outcome
         IN  /\ \A c \in Cells \ {from, to} : Cell(field', c) = Cell(field, c)
             /\ Cell(field', from) \in {None, Some(Revealed(mover))}
             /\ Cell(field', to) \in
                  {Some(mover), Some(Revealed(mover))}
                    \cup (IF IsSome(Cell(field, to))
                          THEN {Some(Revealed(Unwrap(Cell(field, to))))} ELSE {})
             /\ \A p \in Player : Units(field', p) \subseteq Units(field, p) \cup {to}
             /\ lost(current_turn) = (IF o = Some(LOSE) THEN 1 ELSE 0)
             /\ lost(next(current_turn)) = (IF o = Some(WIN) THEN 1 ELSE 0)
       ]_vars

\* a won attack was the first loss of the game: the mover's side is complete,
\* the defender's side lacks one unit, and the cells off the column of the
\* move are as seeded
C19_Witness ==
    /\ call.op = "make_move"
    /\ result = Ok(Some(WIN))
    /\ Cardinality(Units(field, call.player)) = WIDTH * ROWS
    /\ Cardinality(Units(field, next(call.player))) = WIDTH * ROWS - 1
    /\ \A c \in Cells :
          c[1] # Unwrap(call.accepted).from[1] =>
             Cell(field, c) = Cell(new(rules, [i \in 1 .. ROWS |-> ROCK],
                                       [i \in 1 .. ROWS |-> PAPER]).field, c)

====
